---- MODULE Spec2Model ----
(***************************************************************************)
(* tempfile (src/ischroot.c, lines 214-365): the option loop, parsemode,    *)
(* the explicit-name path, the tempnam/open retry loop, close, puts and the *)
(* final frees, run by one or two invocations over one shared file system.  *)
(*                                                                          *)
(* ischroot (the same file, lines 1-212): the option loop, the test of the *)
(* two defaults, isfakechroot, ischroot() and the exit status.              *)
(*                                                                          *)
(* Strings are sequences of one-character strings.  Pointers into the heap  *)
(* are buffer numbers, 0 being the null pointer.                            *)
(***************************************************************************)
EXTENDS Integers, Sequences, FiniteSets, TLC

VARIABLES
  pc,        \* per invocation: the next statement of main
  argc,      \* per invocation: option arguments getopt_long has not returned yet
  optc,      \* per invocation: the last value getopt_long returned
  optarg,    \* per invocation: the last option argument
  pfx, sfx, dir,   \* per invocation: the option strings (Nil: null pointer)
  mode,      \* per invocation: mode_t mode
  name, filename,  \* per invocation: heap pointers (0: null)
  fd,        \* per invocation: "none", "open" or "closed"
  heap,      \* per invocation: buffer -> [live, str]
  heapErr,   \* per invocation: a free of a buffer that is not live has happened
  out,       \* per invocation: lines written to standard output
  err,       \* per invocation: diagnostics written to standard error
  status,    \* per invocation: exit status (-1: still running)
  fs,        \* the shared file system: existing path -> [by, mode]
  gens,      \* per invocation: calls of tempnam so far (saturating)
  attempts,  \* per invocation: calls of open so far (saturating)
  retries,   \* per invocation: opens that failed with EEXIST and were retried (saturating)
  rejected,  \* per invocation: the paths of those opens
  opened,    \* per invocation: the path passed to the last open (Nil: none yet)
  made,      \* per invocation: the path this run created (Nil: none)
  named,     \* per invocation: the outcome of the test if (name) after the options
  nameArg,   \* per invocation: the argument of the last -n option (Nil: none)
  modeArg,   \* per invocation: the last -m argument parsemode accepted (Nil: none)
  openModes, \* per invocation: the mode arguments passed to open so far
  umask,     \* per invocation: the file mode creation mask of the process
  errno,     \* per invocation: errno as the last failed open left it ("none": no open failed)
  \* ischroot, one invocation:
  i_pc,          \* the next statement of main
  i_argc,        \* options getopt_long has not returned yet
  i_c,           \* c, the last value getopt_long returned
  default_false, default_true,
  exit_status,   \* int exit_status (-1: not assigned yet)
  i_status,      \* exit status of the process (-1: still running)
  i_err,         \* lines written to standard error
  platform,      \* the system ischroot was built for
  environ,       \* FAKECHROOT, FAKECHROOT_BASE and LD_PRELOAD (Nil: not set)
  seen,          \* the values getopt_long has returned, in order
  fakeChecked,   \* isfakechroot() has been called
  detected       \* what ischroot() returned (-1: it has not been called)

optVars  == <<pfx, sfx, dir, mode>>
argVars  == <<argc, optc, optarg>>
memVars  == <<name, filename, heap, heapErr>>
ioVars   == <<out, err>>
histVars == <<gens, attempts, retries, rejected, opened, made, named, nameArg, modeArg,
             openModes>>
tempfileVars == <<pc, argc, optc, optarg, pfx, sfx, dir, mode, name, filename, fd, heap,
          heapErr, out, err, status, fs, gens, attempts, retries, rejected, opened, made,
          named, nameArg, modeArg, openModes, umask, errno>>
ischrootVars == <<i_pc, i_argc, i_c, default_false, default_true, exit_status, i_status,
                  i_err, platform, environ, seen, fakeChecked, detected>>
vars == <<tempfileVars, ischrootVars>>

----------------------------------------------------------------------------
(* Bounds *)

\* Option arguments on one command line.
MaxArgs == 3
\* The counters gens, attempts and retries stop counting here.
MaxCount == 3
\* Length of the strings handed to parsemode.
MaxLen == 5

----------------------------------------------------------------------------
(* Values *)

Procs == {1, 2}

\* The null char pointer, for the option strings and the lines.
Nil == <<"(null)">>

DefaultMode == 384      \* 0600
MaxMode == 4095         \* 07777

\* The umasks a run may be started under: 0 and 022.
UsualUmask == 18
Umasks == {0, UsualUmask}

OctDigits == {"0", "1", "2", "3", "4", "5", "6", "7"}
ModeChars == {"0", "7", "9", "+", "-", " ", "a"}
ModeStrings == UNION {[1..n -> ModeChars] : n \in 0..MaxLen}

\* Option arguments the command lines of the runs draw from.
PrefixArgs == {<<"p">>}
SuffixArgs == {<<".", "s">>}
DirArgs    == {<<"/", "d">>}
ModeArgs   == {<<"6", "6", "4">>, <<"9", "9", "9">>, <<"7", "7", "7", "7", "7">>, <<>>}
NameArgs   == {<<"n">>, <<"/", "t", "/", "f", "A">>}

\* The C library's part of a generated name: P_tmpdir, the default prefix and
\* the random characters, shortened.
P_tmpdir == <<"/", "t">>
DefaultPfx == <<"f">>
Rnd == {<<"A">>, <<"B">>}

Bufs == 1..(IF MaxArgs > 2 THEN MaxArgs ELSE 2)
FreeCell == [live |-> FALSE, str |-> <<>>]

Inc(n) == IF n < MaxCount THEN n + 1 ELSE n

----------------------------------------------------------------------------
(* parsemode: strtol(in, &endptr, 8), then the range test *)

DigitVal(c) ==
  CASE c = "0" -> 0 [] c = "1" -> 1 [] c = "2" -> 2 [] c = "3" -> 3
    [] c = "4" -> 4 [] c = "5" -> 5 [] c = "6" -> 6 [] c = "7" -> 7

\* isspace(): of the characters of ModeChars only the blank is white space.
IsSpace(c) == c \in {" ", "\t", "\n", "\r", "\f"}

RECURSIVE SkipSpace(_, _)
SkipSpace(s, i) ==
  IF i <= Len(s) /\ IsSpace(s[i]) THEN SkipSpace(s, i + 1) ELSE i

RECURSIVE ScanDigits(_, _, _)
ScanDigits(s, i, acc) ==
  IF i <= Len(s) /\ s[i] \in OctDigits
  THEN ScanDigits(s, i + 1, acc * 8 + DigitVal(s[i]))
  ELSE [end |-> i, val |-> acc]

\* strtol(s, &endptr, 8): white space, an optional sign, octal digits.  With no
\* digit at all nothing is converted: the value is 0 and endptr is s itself.
\* end is the index endptr points at, Len(s) + 1 being the terminating NUL.
\* (The clamp to LONG_MAX needs more than 21 digits: no string of the bounds
\* reaches it.)
Strtol(s) ==
  LET i0  == SkipSpace(s, 1)
      sgn == i0 <= Len(s) /\ s[i0] \in {"+", "-"}
      neg == i0 <= Len(s) /\ s[i0] = "-"
      i1  == IF sgn THEN i0 + 1 ELSE i0
      r   == ScanDigits(s, i1, 0)
  IN IF r.end = i1
     THEN [val |-> 0, end |-> 1]
     ELSE [val |-> IF neg THEN 0 - r.val ELSE r.val, end |-> r.end]

\* Mutant of parsemode: the test mode > 07777 left out.
parsemodeNoUpper(in, old) ==
  LET r == Strtol(in)
  IN IF r.end <= Len(in) \/ r.val < 0
     THEN [ret |-> 1, out |-> old]
     ELSE [ret |-> 0, out |-> r.val]

\* Mutant of parsemode: *out is assigned before the tests, when the number
\* is not negative.
parsemodeStoresFirst(in, old) ==
  LET r == Strtol(in)
  IN IF r.end <= Len(in) \/ r.val < 0 \/ r.val > MaxMode
     THEN [ret |-> 1, out |-> IF r.val < 0 THEN old ELSE r.val]
     ELSE [ret |-> 0, out |-> r.val]

\* int parsemode(const char *in, mode_t *out): ret and the value *out holds
\* afterwards, given the value it held before.
parsemode(in, old) ==
  LET r == Strtol(in)
  IN IF r.end <= Len(in) \/ r.val < 0 \/ r.val > MaxMode
     THEN [ret |-> 1, out |-> old]
     ELSE [ret |-> 0, out |-> r.val]

----------------------------------------------------------------------------
(* The heap and the file system *)

\* malloc, strdup and tempnam return a buffer that is not live.
Alloc(h) == CHOOSE b \in Bufs : ~h[b].live /\ \A c \in Bufs : c < b => h[c].live
CanAlloc(h) == \E b \in Bufs : ~h[b].live
Store(h, b, s) == [h EXCEPT ![b] = [live |-> TRUE, str |-> s]]
\* free(b): free(NULL) does nothing.
Free(h, b) == IF b = 0 THEN h ELSE [h EXCEPT ![b] = FreeCell]
\* A free of a buffer that is not live: a double free.
BadFree(h, b) == b # 0 /\ ~h[b].live

\* Mutant of FreeBoth: only filename is freed.
FreeFilenameOnly(h, n, f) == [heap |-> Free(h, f), bad |-> BadFree(h, f)]

\* if (name != filename) free(name); free(filename);
FreeBoth(h, n, f) ==
  LET h1 == IF n # f THEN Free(h, n) ELSE h
  IN [heap |-> Free(h1, f),
      bad  |-> (n # f /\ BadFree(h, n)) \/ BadFree(h1, f)]

\* Mutant of Strcat: the strcat is left out.
StrcpyOnly(a, b) == a

\* strcpy(namesfx, name); strcat(namesfx, sfx)
Strcat(a, b) == a \o b

\* The names tempnam(dir, pfx) chooses among.
Directory(d) == IF d = Nil THEN P_tmpdir ELSE d
Prefix(x) == IF x = Nil THEN DefaultPfx ELSE x
TmpNames(d, x) == {Directory(d) \o <<"/">> \o Prefix(x) \o r : r \in Rnd}

Exists(path) == path \in DOMAIN fs

\* Mutant of OpenExcl: O_EXCL left out, so an existing file is opened.
OpenNoExcl(path) == {"OK", "EACCES"}

\* open(path, O_RDWR | O_CREAT | O_EXCL, mode): the outcomes it can have.
\* EACCES stands for every error other than EEXIST.
OpenExcl(path) == IF Exists(path) THEN {"EEXIST", "EACCES"} ELSE {"OK", "EACCES"}

\* a & b
RECURSIVE BitAnd(_, _)
BitAnd(a, b) ==
  IF a = 0 \/ b = 0 THEN 0
  ELSE (a % 2) * (b % 2) + 2 * BitAnd(a \div 2, b \div 2)

\* The permission bits open gives a new file: mode & ~umask.
Masked(m, u) == m - BitAnd(m, u)

\* Mutant of Created: the umask is not applied.
CreatedNoUmask(path, p, m) ==
  IF Exists(path) THEN fs ELSE fs @@ (path :> [by |-> p, mode |-> m])

\* The file system after process p's open of path has succeeded.
Created(path, p, m) ==
  IF Exists(path) THEN fs ELSE fs @@ (path :> [by |-> p, mode |-> Masked(m, umask[p])])

----------------------------------------------------------------------------
(* ischroot: the environment, isfakechroot and ischroot() *)

True == <<"t", "r", "u", "e">>
LibFakechroot ==
  <<"l", "i", "b", "f", "a", "k", "e", "c", "h", "r", "o", "o", "t", ".", "s", "o">>

\* Values of the three environment variables (Nil: getenv returns NULL).
FakechrootValues == {Nil, True, <<"1">>}
BaseValues == {Nil, <<>>}
PreloadValues == {Nil, LibFakechroot, <<"/", "l", "/">> \o LibFakechroot \o <<":", "x">>,
                  SubSeq(LibFakechroot, 1, Len(LibFakechroot) - 1)}
Environments ==
  [FAKECHROOT : FakechrootValues, FAKECHROOT_BASE : BaseValues, LD_PRELOAD : PreloadValues]

Platforms == {"linux", "FreeBSD", "GNU", "other"}

\* s begins with t
StartsWith(s, t) == Len(s) >= Len(t) /\ SubSeq(s, 1, Len(t)) = t

\* strstr(s, t) != NULL: scan s for the first place t begins at
RECURSIVE Strstr(_, _)
Strstr(s, t) ==
  IF StartsWith(s, t) THEN TRUE
  ELSE IF s = <<>> THEN FALSE
  ELSE Strstr(Tail(s), t)

\* Mutant of isfakechroot: LD_PRELOAD is not looked at.
isfakechrootNoPreload(e) ==
  /\ e.FAKECHROOT # Nil
  /\ e.FAKECHROOT = True
  /\ e.FAKECHROOT_BASE # Nil

\* isfakechroot(): FAKECHROOT is "true", FAKECHROOT_BASE is set and LD_PRELOAD
\* has "libfakechroot.so" in it
isfakechroot(e) ==
  /\ e.FAKECHROOT # Nil
  /\ e.FAKECHROOT = True
  /\ e.FAKECHROOT_BASE # Nil
  /\ e.LD_PRELOAD # Nil
  /\ Strstr(e.LD_PRELOAD, LibFakechroot)

\* What the system calls of ischroot() may give.  Linux: the results of the
\* two stats and the device and inode numbers they store.
StatResults == {0, -1}
Stats == [st_dev : {3, 4}, st_ino : {2, 5}]
LinuxProbes == [r1 : StatResults, r2 : StatResults, st1 : Stats, st2 : Stats]

\* ischroot() on Linux
ischrootLinux(q) ==
  IF q.r1 # 0 \/ q.r2 # 0 THEN 2
  ELSE IF q.st1.st_dev = q.st2.st_dev /\ q.st1.st_ino = q.st2.st_ino THEN 1
  ELSE 0

\* FreeBSD: the results of the two sysctls, whether malloc gave a buffer, and
\* the kf_fd fields of the entries read.
KfFds == {<<>>, <<"KF_FD_TYPE_CWD", "KF_FD_TYPE_ROOT">>,
          <<"KF_FD_TYPE_CWD", "KF_FD_TYPE_JAIL">>, <<"KF_FD_TYPE_JAIL">>}
FreeBSDProbes == [s1 : StatResults, buf : BOOLEAN, s2 : StatResults, kf : KfFds]

\* ischroot() on FreeBSD
ischrootFreeBSD(q) ==
  IF q.s1 # 0 THEN 2
  ELSE IF ~q.buf THEN 2
  ELSE IF q.s2 # 0 THEN 2
  ELSE IF \E i \in 1..Len(q.kf) : q.kf[i] = "KF_FD_TYPE_JAIL" THEN 0
  ELSE 1

\* Hurd: the result of the stat of / and its device number.
GNUProbes == [r : StatResults, st_dev : {3, 4}]

\* ischroot() on Hurd
ischrootGNU(q) ==
  IF q.r # 0 THEN 2
  ELSE IF q.st_dev = 3 THEN 1
  ELSE 0

\* ischroot() as built for platform pl: the values it may return.
ischroot(pl) ==
  CASE pl = "linux" -> {ischrootLinux(q) : q \in LinuxProbes}
    [] pl = "FreeBSD" -> {ischrootFreeBSD(q) : q \in FreeBSDProbes}
    [] pl = "GNU" -> {ischrootGNU(q) : q \in GNUProbes}
    [] OTHER -> {2}

----------------------------------------------------------------------------
(* Initial states *)

InitProcs(L, n, U) ==
  /\ pc = [p \in Procs |-> IF p \in L THEN "getopt" ELSE "none"]
  /\ argc \in [Procs -> 0..n]
  /\ \A p \in Procs \ L : argc[p] = 0
  /\ optc = [p \in Procs |-> "none"]
  /\ optarg = [p \in Procs |-> Nil]
  /\ pfx = [p \in Procs |-> Nil]
  /\ sfx = [p \in Procs |-> Nil]
  /\ dir = [p \in Procs |-> Nil]
  /\ mode = [p \in Procs |-> DefaultMode]
  /\ name = [p \in Procs |-> 0]
  /\ filename = [p \in Procs |-> 0]
  /\ fd = [p \in Procs |-> "none"]
  /\ heap = [p \in Procs |-> [b \in Bufs |-> FreeCell]]
  /\ heapErr = [p \in Procs |-> FALSE]
  /\ out = [p \in Procs |-> <<>>]
  /\ err = [p \in Procs |-> <<>>]
  /\ status = [p \in Procs |-> -1]
  /\ fs = <<>>
  /\ gens = [p \in Procs |-> 0]
  /\ attempts = [p \in Procs |-> 0]
  /\ retries = [p \in Procs |-> 0]
  /\ rejected = [p \in Procs |-> {}]
  /\ opened = [p \in Procs |-> Nil]
  /\ made = [p \in Procs |-> Nil]
  /\ named = [p \in Procs |-> FALSE]
  /\ nameArg = [p \in Procs |-> Nil]
  /\ modeArg = [p \in Procs |-> Nil]
  /\ openModes = [p \in Procs |-> {}]
  /\ umask \in [Procs -> U]
  /\ errno = [p \in Procs |-> "none"]
  /\ \A p \in Procs \ L : umask[p] = UsualUmask

\* ischroot is not run.
NoIschroot ==
  /\ i_pc = "none" /\ i_argc = 0 /\ i_c = "none"
  /\ default_false = 0 /\ default_true = 0
  /\ exit_status = -1 /\ i_status = -1 /\ i_err = <<>>
  /\ platform = "linux"
  /\ environ = [FAKECHROOT |-> Nil, FAKECHROOT_BASE |-> Nil, LD_PRELOAD |-> Nil]
  /\ seen = <<>> /\ fakeChecked = FALSE /\ detected = -1

\* One invocation under any of the umasks, and other programs creating files.
Init == InitProcs({1}, MaxArgs, Umasks) /\ NoIschroot
\* Two invocations at once under the usual umask, each with one option
\* argument at most: one option each already makes the two go for the same
\* path or for different ones.
InitRace == InitProcs({1, 2}, 1, {UsualUmask}) /\ NoIschroot
\* One invocation with one option argument.
InitParse == InitProcs({1}, 1, {UsualUmask}) /\ argc[1] = 1 /\ NoIschroot

\* ischroot alone, on any platform, in any environment, with up to MaxArgs
\* options; tempfile is not run.
InitIschroot ==
  /\ InitProcs({}, 0, {UsualUmask})
  /\ i_pc = "getopt" /\ i_argc \in 0..MaxArgs /\ i_c = "none"
  /\ default_false = 0 /\ default_true = 0
  /\ exit_status = -1 /\ i_status = -1 /\ i_err = <<>>
  /\ platform \in Platforms
  /\ environ \in Environments
  /\ seen = <<>> /\ fakeChecked = FALSE /\ detected = -1

----------------------------------------------------------------------------
(* The option loop *)

\* getopt_long returns option c with argument a.
Getopt(p, c, a) ==
  /\ pc[p] = "getopt"
  /\ argc[p] > 0
  /\ argc' = [argc EXCEPT ![p] = @ - 1]
  /\ optc' = [optc EXCEPT ![p] = c]
  /\ optarg' = [optarg EXCEPT ![p] = a]

\* exit(st)
Exit(p, st) ==
  /\ status' = [status EXCEPT ![p] = st]
  /\ pc' = [pc EXCEPT ![p] = "exit"]

\* syserror(fx): perror(fx); exit(1)
Syserror(p, fx, e) ==
  /\ err' = [err EXCEPT ![p] = Append(@, <<fx, e>>)]
  /\ Exit(p, 1)

OptPrefix(p) ==
  \E a \in PrefixArgs :
    /\ Getopt(p, "p", a)
    /\ pfx' = [pfx EXCEPT ![p] = a]
    /\ UNCHANGED <<ischrootVars, umask, errno, pc, sfx, dir, mode, memVars, fd, ioVars, status,
                   fs, histVars>>

OptSuffix(p) ==
  \E a \in SuffixArgs :
    /\ Getopt(p, "s", a)
    /\ sfx' = [sfx EXCEPT ![p] = a]
    /\ UNCHANGED <<ischrootVars, umask, errno, pc, pfx, dir, mode, memVars, fd, ioVars, status,
                   fs, histVars>>

OptDirectory(p) ==
  \E a \in DirArgs :
    /\ Getopt(p, "d", a)
    /\ dir' = [dir EXCEPT ![p] = a]
    /\ UNCHANGED <<ischrootVars, umask, errno, pc, pfx, sfx, mode, memVars, fd, ioVars, status,
                   fs, histVars>>

\* Mutant of OptMode: the diagnostic is printed, usage(1) is not called.
OptModeNoExit(p, a) ==
  /\ Getopt(p, "m", a)
  /\ LET r == parsemode(a, mode[p])
     IN /\ mode' = [mode EXCEPT ![p] = r.out]
        /\ modeArg' = [modeArg EXCEPT ![p] = IF r.ret = 0 THEN a ELSE @]
        /\ IF r.ret # 0
           THEN err' = [err EXCEPT ![p] = @ \o <<<<"Invalid mode">>>>]
           ELSE UNCHANGED err
  /\ UNCHANGED <<ischrootVars, umask, errno, pc, status, pfx, sfx, dir, memVars, fd, out, fs,
                 gens, attempts,
                 retries, rejected, opened, made, named, nameArg, openModes>>

\* case 'm': parsemode(optarg, &mode), and on failure the diagnostic and usage(1)
OptMode(p, a) ==
  /\ Getopt(p, "m", a)
  /\ LET r == parsemode(a, mode[p])
     IN /\ mode' = [mode EXCEPT ![p] = r.out]
        /\ modeArg' = [modeArg EXCEPT ![p] = IF r.ret = 0 THEN a ELSE @]
        /\ IF r.ret # 0
           THEN /\ err' = [err EXCEPT ![p] = @ \o <<<<"Invalid mode">>, <<"Try">>>>]
                /\ Exit(p, 1)
           ELSE UNCHANGED <<err, status, pc>>
  /\ UNCHANGED <<ischrootVars, umask, errno, pfx, sfx, dir, memVars, fd, out, fs, gens,
                 attempts, retries,
                 rejected, opened, made, named, nameArg, openModes>>

\* case 'n': name = strdup(optarg), syserror("strdup") when it returns NULL
OptName(p) ==
  \E a \in NameArgs :
    /\ Getopt(p, "n", a)
    /\ \/ /\ CanAlloc(heap[p])
          /\ LET b == Alloc(heap[p])
             IN /\ heap' = [heap EXCEPT ![p] = Store(@, b, a)]
                /\ name' = [name EXCEPT ![p] = b]
          /\ UNCHANGED <<pc, err, status>>
       \/ /\ name' = [name EXCEPT ![p] = 0]
          /\ Syserror(p, "strdup", "ENOMEM")
          /\ UNCHANGED heap
    /\ nameArg' = [nameArg EXCEPT ![p] = a]
    /\ UNCHANGED <<ischrootVars, umask, errno, modeArg, openModes, optVars, filename, heapErr,
                   fd, out, fs,
                   gens, attempts, retries,
                   rejected, opened, made, named>>

\* case 'h': usage(0)
OptHelp(p) ==
  /\ Getopt(p, "h", optarg[p])
  /\ out' = [out EXCEPT ![p] = Append(@, <<"Usage">>)]
  /\ Exit(p, 0)
  /\ UNCHANGED <<ischrootVars, umask, errno, optVars, memVars, fd, err, fs, histVars>>

\* case 'v': puts("tempfile " PACKAGE_VERSION); exit(0)
OptVersion(p) ==
  /\ Getopt(p, "v", optarg[p])
  /\ out' = [out EXCEPT ![p] = Append(@, <<"tempfile">>)]
  /\ Exit(p, 0)
  /\ UNCHANGED <<ischrootVars, umask, errno, optVars, memVars, fd, err, fs, histVars>>

\* default: getopt_long has reported an unknown option or a missing argument;
\* usage(1)
OptUnknown(p) ==
  /\ Getopt(p, "?", optarg[p])
  /\ err' = [err EXCEPT ![p] = @ \o <<<<"getopt">>, <<"Try">>>>]
  /\ Exit(p, 1)
  /\ UNCHANGED <<ischrootVars, umask, errno, optVars, memVars, fd, out, fs, histVars>>

\* Mutant of OptEnd: if (name) is not tested, the loop is always entered.
OptEndLoopAlways(p) ==
  /\ pc[p] = "getopt"
  /\ argc[p] = 0
  /\ optc' = [optc EXCEPT ![p] = "EOF"]
  /\ named' = [named EXCEPT ![p] = FALSE]
  /\ pc' = [pc EXCEPT ![p] = "tempnam"]
  /\ UNCHANGED <<ischrootVars, umask, errno, modeArg, openModes, argc, optarg, optVars,
                 memVars, fd, ioVars, status, fs, gens, attempts, retries, rejected,
                 opened, made, nameArg>>

\* getopt_long returns EOF: the loop ends and if (name) selects the path.
OptEnd(p) ==
  /\ pc[p] = "getopt"
  /\ argc[p] = 0
  /\ optc' = [optc EXCEPT ![p] = "EOF"]
  /\ named' = [named EXCEPT ![p] = (name[p] # 0)]
  /\ pc' = [pc EXCEPT ![p] = IF name[p] # 0 THEN "open_named" ELSE "tempnam"]
  /\ UNCHANGED <<ischrootVars, umask, errno, modeArg, openModes, argc, optarg, optVars,
                 memVars, fd, ioVars,
                 status, fs,
                 gens, attempts, retries, rejected, opened, made, nameArg>>

----------------------------------------------------------------------------
(* Creating the file *)

Str(p, b) == heap[p][b].str

\* Mutant of OpenNamed: the result of open is not tested.
OpenNamedUnchecked(p) ==
  /\ pc[p] = "open_named"
  /\ LET path == Str(p, name[p])
     IN \E r \in OpenExcl(path) :
          /\ attempts' = [attempts EXCEPT ![p] = Inc(@)]
          /\ opened' = [opened EXCEPT ![p] = path]
          /\ openModes' = [openModes EXCEPT ![p] = @ \cup {mode[p]}]
          /\ errno' = [errno EXCEPT ![p] = IF r = "OK" THEN @ ELSE r]
          /\ IF r = "OK"
             THEN /\ fs' = Created(path, p, mode[p])
                  /\ fd' = [fd EXCEPT ![p] = "open"]
                  /\ made' = [made EXCEPT ![p] = path]
             ELSE UNCHANGED <<fs, fd, made>>
          /\ filename' = [filename EXCEPT ![p] = name[p]]
          /\ pc' = [pc EXCEPT ![p] = "close"]
          /\ UNCHANGED <<err, status>>
  /\ UNCHANGED <<ischrootVars, umask, modeArg, argVars, optVars, name, heap, heapErr,
                 out, gens, retries,
                 rejected, named, nameArg>>

\* Mutant of OpenNamed: on EEXIST the run goes on into the loop of generated
\* names, as it does for a generated name.
OpenNamedRetry(p) ==
  /\ pc[p] = "open_named"
  /\ LET path == Str(p, name[p])
     IN \E r \in OpenExcl(path) :
          /\ attempts' = [attempts EXCEPT ![p] = Inc(@)]
          /\ opened' = [opened EXCEPT ![p] = path]
          /\ openModes' = [openModes EXCEPT ![p] = @ \cup {mode[p]}]
          /\ errno' = [errno EXCEPT ![p] = IF r = "OK" THEN @ ELSE r]
          /\ CASE r = "OK" ->
                  /\ fs' = Created(path, p, mode[p])
                  /\ fd' = [fd EXCEPT ![p] = "open"]
                  /\ filename' = [filename EXCEPT ![p] = name[p]]
                  /\ made' = [made EXCEPT ![p] = path]
                  /\ pc' = [pc EXCEPT ![p] = "close"]
                  /\ UNCHANGED <<err, status>>
               [] r = "EEXIST" ->
                  /\ pc' = [pc EXCEPT ![p] = "tempnam"]
                  /\ UNCHANGED <<fs, fd, filename, made, err, status>>
               [] OTHER ->
                  /\ Syserror(p, "open", r)
                  /\ UNCHANGED <<fs, fd, filename, made>>
  /\ UNCHANGED <<ischrootVars, umask, modeArg, argVars, optVars, name, heap, heapErr,
                 out, gens, retries,
                 rejected, named, nameArg>>

\* if (name): one open of the name given, syserror("open") when it fails
OpenNamed(p) ==
  /\ pc[p] = "open_named"
  /\ LET path == Str(p, name[p])
     IN \E r \in OpenExcl(path) :
          /\ attempts' = [attempts EXCEPT ![p] = Inc(@)]
          /\ opened' = [opened EXCEPT ![p] = path]
          /\ openModes' = [openModes EXCEPT ![p] = @ \cup {mode[p]}]
          /\ errno' = [errno EXCEPT ![p] = IF r = "OK" THEN @ ELSE r]
          /\ IF r = "OK"
             THEN /\ fs' = Created(path, p, mode[p])
                  /\ fd' = [fd EXCEPT ![p] = "open"]
                  /\ filename' = [filename EXCEPT ![p] = name[p]]
                  /\ made' = [made EXCEPT ![p] = path]
                  /\ pc' = [pc EXCEPT ![p] = "close"]
                  /\ UNCHANGED <<err, status>>
             ELSE /\ Syserror(p, "open", r)
                  /\ UNCHANGED <<fs, fd, filename, made>>
  /\ UNCHANGED <<ischrootVars, umask, modeArg, argVars, optVars, name, heap, heapErr,
                 out, gens, retries,
                 rejected, named, nameArg>>

\* Mutant of Tempnam: a null result is not fatal, tempnam is called again.
TempnamRetry(p) ==
  /\ pc[p] = "tempnam"
  /\ gens' = [gens EXCEPT ![p] = Inc(@)]
  /\ \/ \E base \in TmpNames(dir[p], pfx[p]) :
          /\ ~Exists(base)
          /\ CanAlloc(heap[p])
          /\ LET b == Alloc(heap[p])
             IN /\ heap' = [heap EXCEPT ![p] = Store(@, b, base)]
                /\ name' = [name EXCEPT ![p] = b]
                /\ IF sfx[p] # Nil
                   THEN /\ pc' = [pc EXCEPT ![p] = "malloc"]
                        /\ UNCHANGED filename
                   ELSE /\ pc' = [pc EXCEPT ![p] = "open"]
                        /\ filename' = [filename EXCEPT ![p] = b]
     \/ /\ name' = [name EXCEPT ![p] = 0]
        /\ UNCHANGED <<pc, heap, filename>>
  /\ UNCHANGED <<ischrootVars, umask, errno, modeArg, openModes, argVars, optVars,
                 heapErr, fd, ioVars, status, fs, attempts, retries, rejected, opened,
                 made, named, nameArg>>

\* name = tempnam(dir, pfx): a name that does not exist now, or NULL; without
\* a suffix filename = name
Tempnam(p) ==
  /\ pc[p] = "tempnam"
  /\ gens' = [gens EXCEPT ![p] = Inc(@)]
  /\ \/ \E base \in TmpNames(dir[p], pfx[p]) :
          /\ ~Exists(base)
          /\ CanAlloc(heap[p])
          /\ LET b == Alloc(heap[p])
             IN /\ heap' = [heap EXCEPT ![p] = Store(@, b, base)]
                /\ name' = [name EXCEPT ![p] = b]
                /\ IF sfx[p] # Nil
                   THEN /\ pc' = [pc EXCEPT ![p] = "malloc"]
                        /\ UNCHANGED filename
                   ELSE /\ pc' = [pc EXCEPT ![p] = "open"]
                        /\ filename' = [filename EXCEPT ![p] = b]
          /\ UNCHANGED <<err, status>>
     \/ /\ name' = [name EXCEPT ![p] = 0]
        /\ Syserror(p, "tempnam", "ENOMEM")
        /\ UNCHANGED <<heap, filename>>
  /\ UNCHANGED <<ischrootVars, umask, errno, modeArg, openModes, argVars, optVars, heapErr, fd,
                 out, fs,
                 attempts, retries,
                 rejected, opened, made, named, nameArg>>

\* if (sfx): namesfx = malloc(...), strcpy, strcat, filename = namesfx
SuffixCompose(p) ==
  /\ pc[p] = "malloc"
  /\ \/ /\ CanAlloc(heap[p])
        /\ LET b == Alloc(heap[p])
           IN /\ heap' = [heap EXCEPT ![p] = Store(@, b, Strcat(Str(p, name[p]), sfx[p]))]
              /\ filename' = [filename EXCEPT ![p] = b]
        /\ pc' = [pc EXCEPT ![p] = "open"]
        /\ UNCHANGED <<err, status>>
     \/ /\ Syserror(p, "malloc", "ENOMEM")
        /\ UNCHANGED <<heap, filename>>
  /\ UNCHANGED <<ischrootVars, umask, errno, argVars, optVars, name, heapErr, fd, out, fs,
                 histVars>>

\* Mutant of OpenGenerated: errno is not looked at, every failed open is
\* retried.
OpenGeneratedAnyError(p) ==
  /\ pc[p] = "open"
  /\ LET path == Str(p, filename[p])
         fr   == FreeBoth(heap[p], name[p], filename[p])
     IN \E r \in OpenExcl(path) :
          /\ attempts' = [attempts EXCEPT ![p] = Inc(@)]
          /\ opened' = [opened EXCEPT ![p] = path]
          /\ openModes' = [openModes EXCEPT ![p] = @ \cup {mode[p]}]
          /\ errno' = [errno EXCEPT ![p] = IF r = "OK" THEN @ ELSE r]
          /\ IF r = "OK"
             THEN /\ fs' = Created(path, p, mode[p])
                  /\ fd' = [fd EXCEPT ![p] = "open"]
                  /\ made' = [made EXCEPT ![p] = path]
                  /\ pc' = [pc EXCEPT ![p] = "close"]
                  /\ UNCHANGED <<heap, heapErr, retries, rejected>>
             ELSE /\ heap' = [heap EXCEPT ![p] = fr.heap]
                  /\ heapErr' = [heapErr EXCEPT ![p] = @ \/ fr.bad]
                  /\ retries' = [retries EXCEPT ![p] = Inc(@)]
                  /\ rejected' = [rejected EXCEPT ![p] = @ \cup {path}]
                  /\ pc' = [pc EXCEPT ![p] = "tempnam"]
                  /\ UNCHANGED <<fs, fd, made>>
  /\ UNCHANGED <<ischrootVars, umask, modeArg, err, status, argVars, optVars, name,
                 filename, out,
                 gens, named, nameArg>>

\* Mutant of OpenGenerated: errno is not looked at, every failed open ends
\* the run.
OpenGeneratedNoRetry(p) ==
  /\ pc[p] = "open"
  /\ LET path == Str(p, filename[p])
     IN \E r \in OpenExcl(path) :
          /\ attempts' = [attempts EXCEPT ![p] = Inc(@)]
          /\ opened' = [opened EXCEPT ![p] = path]
          /\ openModes' = [openModes EXCEPT ![p] = @ \cup {mode[p]}]
          /\ errno' = [errno EXCEPT ![p] = IF r = "OK" THEN @ ELSE r]
          /\ IF r = "OK"
             THEN /\ fs' = Created(path, p, mode[p])
                  /\ fd' = [fd EXCEPT ![p] = "open"]
                  /\ made' = [made EXCEPT ![p] = path]
                  /\ pc' = [pc EXCEPT ![p] = "close"]
                  /\ UNCHANGED <<err, status>>
             ELSE /\ Syserror(p, "open", r)
                  /\ UNCHANGED <<fs, fd, made>>
  /\ UNCHANGED <<ischrootVars, umask, modeArg, argVars, optVars, memVars, out, gens,
                 retries, rejected, named, nameArg>>

\* The open of the loop: break on success, free and continue on EEXIST,
\* syserror("open") on any other error
OpenGenerated(p) ==
  /\ pc[p] = "open"
  /\ LET path == Str(p, filename[p])
         fr   == FreeBoth(heap[p], name[p], filename[p])
     IN \E r \in OpenExcl(path) :
          /\ attempts' = [attempts EXCEPT ![p] = Inc(@)]
          /\ opened' = [opened EXCEPT ![p] = path]
          /\ openModes' = [openModes EXCEPT ![p] = @ \cup {mode[p]}]
          /\ errno' = [errno EXCEPT ![p] = IF r = "OK" THEN @ ELSE r]
          /\ CASE r = "OK" ->
                  /\ fs' = Created(path, p, mode[p])
                  /\ fd' = [fd EXCEPT ![p] = "open"]
                  /\ made' = [made EXCEPT ![p] = path]
                  /\ pc' = [pc EXCEPT ![p] = "close"]
                  /\ UNCHANGED <<heap, heapErr, err, status, retries, rejected>>
               [] r = "EEXIST" ->
                  /\ heap' = [heap EXCEPT ![p] = fr.heap]
                  /\ heapErr' = [heapErr EXCEPT ![p] = @ \/ fr.bad]
                  /\ retries' = [retries EXCEPT ![p] = Inc(@)]
                  /\ rejected' = [rejected EXCEPT ![p] = @ \cup {path}]
                  /\ pc' = [pc EXCEPT ![p] = "tempnam"]
                  /\ UNCHANGED <<fs, fd, made, err, status>>
               [] OTHER ->
                  /\ Syserror(p, "open", r)
                  /\ UNCHANGED <<fs, fd, made, heap, heapErr, retries, rejected>>
  /\ UNCHANGED <<ischrootVars, umask, modeArg, argVars, optVars, name, filename, out,
                 gens, named, nameArg>>

\* Mutant of Close: the result of close is not tested.
CloseUnchecked(p) ==
  /\ pc[p] = "close"
  /\ \E st \in {"open", "closed"} : fd' = [fd EXCEPT ![p] = st]
  /\ pc' = [pc EXCEPT ![p] = "puts"]
  /\ UNCHANGED <<ischrootVars, umask, errno, err, status, argVars, optVars, memVars, out, fs,
                 histVars>>

\* if (close(fd)) syserror("close").  What a failed close leaves of the
\* descriptor is unspecified.
Close(p) ==
  /\ pc[p] = "close"
  /\ \/ /\ fd' = [fd EXCEPT ![p] = "closed"]
        /\ pc' = [pc EXCEPT ![p] = "puts"]
        /\ UNCHANGED <<err, status>>
     \/ /\ \E st \in {"open", "closed"} : fd' = [fd EXCEPT ![p] = st]
        /\ Syserror(p, "close", "EIO")
  /\ UNCHANGED <<ischrootVars, umask, errno, argVars, optVars, memVars, out, fs, histVars>>

\* puts(filename): its result is not looked at
Puts(p) ==
  /\ pc[p] = "puts"
  /\ \E ok \in BOOLEAN :
       out' = [out EXCEPT ![p] = IF ok THEN Append(@, Str(p, filename[p])) ELSE @]
  /\ pc' = [pc EXCEPT ![p] = "free"]
  /\ UNCHANGED <<ischrootVars, umask, errno, argVars, optVars, memVars, fd, err, status, fs,
                 histVars>>

\* if (name != filename) free(name); free(filename); exit(0)
Cleanup(p) ==
  /\ pc[p] = "free"
  /\ LET fr == FreeBoth(heap[p], name[p], filename[p])
     IN /\ heap' = [heap EXCEPT ![p] = fr.heap]
        /\ heapErr' = [heapErr EXCEPT ![p] = @ \/ fr.bad]
  /\ Exit(p, 0)
  /\ UNCHANGED <<ischrootVars, umask, errno, argVars, optVars, name, filename, fd, ioVars, fs,
                 histVars>>

----------------------------------------------------------------------------
(* Other programs *)

\* The paths invocation p may pass to open from here on.
Targets(p) ==
  IF pc[p] \in {"none", "getopt", "exit"} THEN {}
  ELSE IF named[p] THEN {Str(p, name[p])}
  ELSE LET bases == TmpNames(dir[p], pfx[p])
       IN IF sfx[p] = Nil THEN bases ELSE bases \cup {Strcat(b, sfx[p]) : b \in bases}

RacePaths == UNION {Targets(p) : p \in Procs}

\* Another program creates a file at a path some invocation is going for.
\* (Files at other paths, and files made before the options are read, change
\* nothing an invocation sees.)
ExternalCreate(path) ==
  /\ ~Exists(path)
  /\ fs' = fs @@ (path :> [by |-> 0, mode |-> DefaultMode])
  /\ UNCHANGED <<ischrootVars, umask, errno, pc, argVars, optVars, memVars, fd, ioVars, status,
                 histVars>>

----------------------------------------------------------------------------
(* ischroot: main *)

\* c = getopt_long(argc, argv, "fthV", ...) returns the option o
IGetopt(o) ==
  /\ i_pc = "getopt"
  /\ i_argc > 0
  /\ i_argc' = i_argc - 1
  /\ i_c' = o
  /\ seen' = Append(seen, o)
  /\ UNCHANGED <<platform, environ, fakeChecked, detected, exit_status, tempfileVars>>

\* exit(st)
IExit(st) == i_pc' = "exit" /\ i_status' = st

\* case 'f': default_false = 1
CaseF ==
  /\ IGetopt("f")
  /\ default_false' = 1
  /\ UNCHANGED <<default_true, i_pc, i_status, i_err>>

\* case 't': default_true = 1
CaseT ==
  /\ IGetopt("t")
  /\ default_true' = 1
  /\ UNCHANGED <<default_false, i_pc, i_status, i_err>>

\* case 'h': usage(), which prints to stderr and calls exit(0)
CaseH ==
  /\ IGetopt("h")
  /\ i_err' = Append(i_err, <<"Usage">>)
  /\ IExit(0)
  /\ UNCHANGED <<default_false, default_true>>

\* case 'V': version(), which prints to stderr and calls exit(0)
CaseV ==
  /\ IGetopt("V")
  /\ i_err' = Append(i_err, <<"version">>)
  /\ IExit(0)
  /\ UNCHANGED <<default_false, default_true>>

\* default: an option getopt_long does not know; exit(1)
CaseDefault ==
  /\ IGetopt("?")
  /\ i_err' = Append(i_err, <<"Try">>)
  /\ IExit(1)
  /\ UNCHANGED <<default_false, default_true>>

\* if (c == EOF) break
GetoptEOF ==
  /\ i_pc = "getopt"
  /\ i_argc = 0
  /\ i_c' = "EOF"
  /\ i_pc' = "defaults"
  /\ UNCHANGED <<i_argc, default_false, default_true, exit_status, i_status, i_err,
                 platform, environ, seen, fakeChecked, detected, tempfileVars>>

\* Mutant of BothDefaults: the message is printed and the run goes on.
BothDefaultsNoExit ==
  /\ i_pc = "defaults"
  /\ i_err' = IF default_false # 0 /\ default_true # 0
              THEN i_err \o <<<<"Can't default">>, <<"Try">>>> ELSE i_err
  /\ i_pc' = "detect"
  /\ UNCHANGED <<i_status, i_argc, i_c, default_false, default_true, exit_status, platform,
                 environ, seen, fakeChecked, detected, tempfileVars>>

\* if (default_false && default_true) { two lines to stderr; exit(1); }
BothDefaults ==
  /\ i_pc = "defaults"
  /\ IF default_false # 0 /\ default_true # 0
     THEN /\ i_err' = i_err \o <<<<"Can't default">>, <<"Try">>>>
          /\ IExit(1)
     ELSE /\ i_pc' = "detect"
          /\ UNCHANGED <<i_status, i_err>>
  /\ UNCHANGED <<i_argc, i_c, default_false, default_true, exit_status, platform,
                 environ, seen, fakeChecked, detected, tempfileVars>>

\* if (isfakechroot()) exit_status = 0; else exit_status = ischroot();
Detect ==
  /\ i_pc = "detect"
  /\ fakeChecked' = TRUE
  /\ IF isfakechroot(environ)
     THEN exit_status' = 0 /\ UNCHANGED detected
     ELSE \E d \in ischroot(platform) : exit_status' = d /\ detected' = d
  /\ i_pc' = "return"
  /\ UNCHANGED <<i_argc, i_c, default_false, default_true, i_status, i_err, platform,
                 environ, seen, tempfileVars>>

\* if (exit_status == 2) { if (default_true) exit_status = 0;
\* if (default_false) exit_status = 1; }  return exit_status;
Return ==
  /\ i_pc = "return"
  /\ LET e1 == IF exit_status = 2 /\ default_true # 0 THEN 0 ELSE exit_status
         e2 == IF exit_status = 2 /\ default_false # 0 THEN 1 ELSE e1
     IN exit_status' = e2 /\ IExit(e2)
  /\ UNCHANGED <<i_argc, i_c, default_false, default_true, i_err, platform, environ, seen,
                 fakeChecked, detected, tempfileVars>>

----------------------------------------------------------------------------
(* Specifications *)

ProcNext(p) ==
  \/ OptPrefix(p)
  \/ OptSuffix(p)
  \/ OptDirectory(p)
  \/ \E a \in ModeArgs : OptMode(p, a)
  \/ OptName(p)
  \/ OptHelp(p)
  \/ OptVersion(p)
  \/ OptUnknown(p)
  \/ OptEnd(p)
  \/ OpenNamed(p)
  \/ Tempnam(p)
  \/ SuffixCompose(p)
  \/ OpenGenerated(p)
  \/ Close(p)
  \/ Puts(p)
  \/ Cleanup(p)

Next ==
  \/ \E p \in Procs : ProcNext(p)
  \/ \E path \in RacePaths : ExternalCreate(path)

\* One invocation among other programs.
Spec == Init /\ [][Next]_vars

\* Two invocations and other programs.
SpecRace == InitRace /\ [][Next]_vars

\* The invocations keep running: the program has no wait in it.
FairSpec == Init /\ [][Next]_vars /\ \A p \in Procs : WF_vars(ProcNext(p))

\* parsemode alone, on every string of ModeStrings.
NextParse ==
  \E p \in Procs :
    /\ pc[p] = "getopt" /\ argc[p] > 0
    /\ \E a \in ModeStrings : OptMode(p, a)
SpecParse == InitParse /\ [][NextParse]_vars

\* ischroot alone.
NextIschroot ==
  \/ CaseF
  \/ CaseT
  \/ CaseH
  \/ CaseV
  \/ CaseDefault
  \/ GetoptEOF
  \/ BothDefaults
  \/ Detect
  \/ Return
SpecIschroot == InitIschroot /\ [][NextIschroot]_vars

----------------------------------------------------------------------------
(* Properties *)

Done(p) == pc[p] = "exit"
Lines(p) == {out[p][i] : i \in 1..Len(out[p])}
LastErr(p) == IF err[p] = <<>> THEN <<>> ELSE err[p][Len(err[p])]
\* The run came to the end of its options and so to the creation of a file.
CreateRun(p) == optc[p] = "EOF"
AllFreed(p) == \A b \in Bufs : ~heap[p][b].live

\* C1: of two invocations, run one after the other or interleaved, at most one
\* creates any given path: the paths created differ, each is a file of the
\* run that created it, and the paths reported differ.
C1_UniquePaths ==
  \A p \in Procs : \A q \in Procs \ {p} :
    /\ made[p] # Nil => Exists(made[p]) /\ fs[made[p]].by = p
    /\ made[p] # Nil /\ made[q] # Nil => made[p] # made[q]
    /\ status[p] = 0 /\ status[q] = 0 /\ CreateRun(p) /\ CreateRun(q)
         => Lines(p) \cap Lines(q) = {}

\* Both invocations held the same candidate, one was turned away from it, and
\* both ended with status 0 and a path reported.
C1_Witness ==
  /\ status[1] = 0 /\ status[2] = 0
  /\ out[1] = <<made[1]>> /\ out[2] = <<made[2]>>
  /\ made[1] \in rejected[2]

\* C2 as claimed: at the end of a run, the run has created a file if and only
\* if it exits with status 0 having reported the file's path.
C2_CreatedIffSuccess ==
  \A p \in Procs :
    Done(p) => ((made[p] # Nil) <=> (status[p] = 0 /\ made[p] \in Lines(p)))

CloseFailed(p) == Done(p) /\ LastErr(p) = <<"close", "EIO">>

\* C2 as amended: at the end of a run, the run has created a file (its own, at
\* the path it opened) if and only if it exits 0 from the creation of a file or
\* exits 1 because close failed; what it has written to standard output is then
\* nothing or that path.
C2_CreatedIffOpened ==
  \A p \in Procs :
    Done(p) =>
      /\ (made[p] # Nil) <=> ((status[p] = 0 /\ CreateRun(p)) \/ CloseFailed(p))
      /\ made[p] # Nil => Exists(made[p]) /\ fs[made[p]].by = p /\ Lines(p) \subseteq {made[p]}
      /\ CloseFailed(p) => status[p] = 1 /\ out[p] = <<>>
      /\ made[p] = Nil => \A path \in DOMAIN fs : fs[path].by # p

\* A run that ended with status 1 at close and left the file it created.
C2_Witness ==
  \E p \in Procs : CloseFailed(p) /\ status[p] = 1 /\ made[p] # Nil /\ Exists(made[p])

----------------------------------------------------------------------------
(* parsemode, stated without strtol *)

IsOctalNumeral(s) == Len(s) > 0 /\ \A i \in 1..Len(s) : s[i] \in OctDigits

RECURSIVE OctValue(_)
OctValue(s) ==
  IF Len(s) = 0 THEN 0
  ELSE 8 * OctValue(SubSeq(s, 1, Len(s) - 1)) + DigitVal(s[Len(s)])

\* s is k blanks, then a sign if sg = 1, then an octal numeral.
SignedForm(s, k, sg) ==
  /\ k + sg < Len(s)
  /\ \A i \in 1..k : s[i] = " "
  /\ sg = 1 => s[k + 1] \in {"+", "-"}
  /\ IsOctalNumeral(SubSeq(s, k + sg + 1, Len(s)))

SignedValue(s, k, sg) ==
  LET v == OctValue(SubSeq(s, k + sg + 1, Len(s)))
  IN IF sg = 1 /\ s[k + 1] = "-" THEN 0 - v ELSE v

\* s is in the signed form with a value in [0, 07777].
InRangeForm(s) ==
  \E k \in 0..Len(s) : \E sg \in {0, 1} :
    SignedForm(s, k, sg) /\ SignedValue(s, k, sg) \in 0..MaxMode

\* The last option was -m and parsemode accepted / rejected its argument.
ModeAccepted(p) == optc[p] = "m" /\ status[p] = -1 /\ pc[p] = "getopt"
ModeRejected(p) ==
  optc[p] = "m" /\ Done(p) /\ status[p] = 1
  /\ err[p] = <<<<"Invalid mode">>, <<"Try">>>>

C4_EmptyRejected ==
  \A p \in Procs :
    optc[p] = "m" /\ optarg[p] = <<>> => ModeRejected(p) /\ made[p] = Nil

\* C5: once parsemode has rejected the argument of a -m (a string that is not
\* empty and not a signed octal numeral in range), the run has ended with
\* status 1, the diagnostic and the usage hint on standard error, and there has
\* been no tempnam, no open and no file of this run, whatever came before.
C5_RejectBeforeCreate ==
  \A p \in Procs :
    \/ optc[p] = "m" /\ optarg[p] # <<>> /\ ~InRangeForm(optarg[p])
    \/ \E i \in 1..Len(err[p]) : err[p][i] = <<"Invalid mode">>
    =>
      /\ Done(p) /\ status[p] = 1
      /\ err[p] = <<<<"Invalid mode">>, <<"Try">>>>
      /\ out[p] = <<>>
      /\ gens[p] = 0 /\ attempts[p] = 0 /\ opened[p] = Nil
      /\ made[p] = Nil /\ fd[p] = "none"
      /\ \A path \in DOMAIN fs : fs[path].by # p

\* -m 999 rejected after a -n, whose name is left unopened.
C5_Witness ==
  \E p \in Procs :
    /\ ModeRejected(p) /\ optarg[p] = <<"9", "9", "9">>
    /\ nameArg[p] # Nil /\ name[p] # 0


\* C6: the path is on standard output only once the descriptor of the
\* successful open has been closed without error; a run whose close failed has
\* written nothing to standard output and exits 1; no run exits 0 holding the
\* descriptor, and none writes the path before the close.
C6_CloseBeforeReport ==
  \A p \in Procs :
    /\ CreateRun(p) /\ out[p] # <<>> =>
         fd[p] = "closed" /\ out[p] = <<made[p]>> /\ err[p] = <<>>
    /\ status[p] = 0 /\ CreateRun(p) => fd[p] = "closed"
    /\ CloseFailed(p) => out[p] = <<>> /\ status[p] = 1
    /\ fd[p] = "open" => out[p] = <<>> /\ status[p] # 0

\* A run that has closed the descriptor and then written the path.
C6_Witness ==
  \E p \in Procs :
    status[p] = 0 /\ fd[p] = "closed" /\ made[p] # Nil /\ out[p] = <<made[p]>>

\* What holds of a run for which if (name) was true.
NamedRun(p) ==
  /\ nameArg[p] # Nil
  /\ gens[p] = 0 /\ retries[p] = 0 /\ rejected[p] = {}
  /\ attempts[p] <= 1
  /\ attempts[p] = 0 <=> pc[p] = "open_named"
  /\ attempts[p] = 0 <=> opened[p] = Nil
  /\ attempts[p] = 1 => opened[p] = nameArg[p]
  /\ made[p] \in {Nil, nameArg[p]}

\* C7: with --name F there is one open, of F itself, and no tempnam; and the
\* open of an F that exists fails, ends the run with status 1 and a diagnostic
\* of open, and leaves the file system as it was.
C7_ExplicitName ==
  [][\A p \in Procs :
       named'[p] =>
         /\ NamedRun(p)'
         /\ pc[p] = "open_named" /\ pc'[p] # "open_named" /\ Exists(nameArg[p]) =>
              /\ fs' = fs
              /\ pc'[p] = "exit" /\ status'[p] = 1
              /\ \E e \in {"EEXIST", "EACCES"} : err'[p] = Append(err[p], <<"open", e>>)
              /\ made'[p] = Nil /\ fd'[p] = "none" /\ out'[p] = <<>>]_vars

\* --name F with F made by another program: the run has ended with EEXIST.
C7_Witness ==
  \E p \in Procs :
    /\ named[p] /\ Done(p) /\ status[p] = 1
    /\ LastErr(p) = <<"open", "EEXIST">>
    /\ attempts[p] = 1 /\ opened[p] = nameArg[p]
    /\ Exists(nameArg[p]) /\ fs[nameArg[p]].by = 0


Terminated(p) == pc[p] \in {"none", "exit"}

\* C8 as claimed: every run comes to its end, with status 0 or 1.
C8_Terminates == <>(\A p \in Procs : Terminated(p) /\ status[p] \in {-1, 0, 1})

\* The open of the loop finds the path existing and the loop goes round.
RetryStep(p) ==
  /\ pc[p] = "open" /\ pc'[p] = "tempnam"
  /\ Exists(opened'[p]) /\ opened'[p] = Str(p, filename[p])

\* C8 as amended: a run comes to its end, with status 0 or 1, unless the open
\* of its loop fails with EEXIST again and again without end: the loop has no
\* bound on its retries.
C8_TerminatesOrRetries ==
  \A p \in Procs :
    \/ <>(Terminated(p) /\ status[p] \in {-1, 0, 1})
    \/ []<><<RetryStep(p)>>_vars

\* A run in the loop that has been turned away as often as the model counts.
C8_Witness ==
  \E p \in Procs : pc[p] = "open" /\ retries[p] = MaxCount /\ attempts[p] = MaxCount


\* The errors other than EEXIST that end a run in the loop of generated names.
LoopErrors ==
  {<<"tempnam", "ENOMEM">>, <<"malloc", "ENOMEM">>, <<"open", "EACCES">>,
   <<"close", "EIO">>}

\* C9: a run with generated names that is turned away k times and then finds a
\* free path makes k + 1 opens and k + 1 calls of tempnam (counted below
\* MaxCount), exits 0 with a path that is none of those it was turned away
\* from, with the descriptor closed and every buffer freed; every candidate is
\* freed before the next is generated; and it ends otherwise only on an error
\* other than EEXIST.
C9_CollisionRecovery ==
  \A p \in Procs :
    ~named[p] /\ CreateRun(p) =>
      /\ retries[p] <= attempts[p] /\ Cardinality(rejected[p]) <= retries[p]
      /\ pc[p] = "tempnam" => AllFreed(p) /\ attempts[p] = retries[p]
      /\ status[p] = 0 =>
           /\ attempts[p] < MaxCount =>
                attempts[p] = retries[p] + 1 /\ gens[p] = attempts[p]
           /\ made[p] # Nil /\ made[p] \notin rejected[p] /\ opened[p] = made[p]
           /\ Lines(p) \subseteq {made[p]}
           /\ fd[p] = "closed"
           /\ AllFreed(p) /\ ~heapErr[p]
      /\ Done(p) /\ status[p] # 0 => status[p] = 1 /\ LastErr(p) \in LoopErrors

\* One collision on a suffixed candidate, then success.
C9_Witness ==
  \E p \in Procs :
    /\ ~named[p] /\ status[p] = 0 /\ sfx[p] # Nil
    /\ retries[p] = 1 /\ attempts[p] = 2 /\ Cardinality(rejected[p]) = 1
    /\ out[p] = <<made[p]>> /\ AllFreed(p)

EndsWith(s, t) ==
  Len(s) >= Len(t) /\ SubSeq(s, Len(s) - Len(t) + 1, Len(s)) = t

\* C10 as claimed: a run with a suffix that exits 0 has created and reported a
\* path that ends with the suffix.
C10_SuffixAlways ==
  \A p \in Procs :
    status[p] = 0 /\ CreateRun(p) /\ sfx[p] # Nil =>
      EndsWith(made[p], sfx[p]) /\ \A l \in Lines(p) : EndsWith(l, sfx[p])

\* C10 as amended: a run with a suffix and without --name that exits 0 has
\* created and reported a path that ends with the suffix (with --name the
\* suffix is not used).
C10_SuffixGenerated ==
  \A p \in Procs :
    status[p] = 0 /\ CreateRun(p) /\ sfx[p] # Nil /\ ~named[p] =>
      /\ EndsWith(made[p], sfx[p]) /\ \A l \in Lines(p) : EndsWith(l, sfx[p])
      /\ \E b \in TmpNames(dir[p], pfx[p]) : made[p] = b \o sfx[p]

\* A run with a suffix and generated names that has reported its path.
C10_Witness ==
  \E p \in Procs :
    status[p] = 0 /\ ~named[p] /\ sfx[p] # Nil /\ out[p] = <<made[p]>>

----------------------------------------------------------------------------
(* the mode of the file created *)

\* The positions of the bits set in n, of the twelve permission bits.
Bits(n) == {i \in 0..11 : (n \div 2^i) % 2 = 1}

\* 0600 without an accepted -m, else the value of the last -m argument accepted.
PermissionMask(p) == IF modeArg[p] = Nil THEN DefaultMode ELSE OctValue(modeArg[p])

\* C11: in a run with generated names the path created did not exist at the
\* open that created it and exists after it; and in a run that exits 0 the
\* path reported is that path, a file of this run, whose permission bits are
\* those of the mask (0600 without -m, else the value of the -m argument
\* accepted) that are not in the umask.
C11_GeneratedCreate ==
  [][\A p \in Procs :
       ~named'[p] /\ CreateRun(p)' =>
         /\ made'[p] # made[p] =>
              /\ pc[p] = "open" /\ made'[p] = opened'[p]
              /\ ~Exists(made'[p]) /\ made'[p] \in DOMAIN fs'
         /\ status'[p] = 0 =>
              /\ made'[p] \in DOMAIN fs' /\ fs'[made'[p]].by = p
              /\ Lines(p)' \subseteq {made'[p]}
              /\ Bits(fs'[made'[p]].mode)
                   = Bits(PermissionMask(p)') \ Bits(umask'[p])]_vars

\* A run with generated names, -m 664 and umask 022 has exited 0 and reported
\* the path of a file with mode 0644.
C11_Witness ==
  \E p \in Procs :
    /\ ~named[p] /\ status[p] = 0 /\ out[p] = <<made[p]>>
    /\ modeArg[p] = <<"6", "6", "4">> /\ umask[p] = UsualUmask
    /\ fs[made[p]].mode = 420

----------------------------------------------------------------------------
(* errors and the exit status *)

\* C12 as claimed: a run that came to the creation of a file and has ended
\* has either exited 0 with the line of its path written to standard output,
\* or exited with a non-zero status after a diagnostic on standard error;
\* failing to write the line is one of the errors that end it the second way.
C12_ErrorsSurface ==
  \A p \in Procs :
    Done(p) /\ CreateRun(p) =>
      \/ status[p] = 0 /\ out[p] = <<made[p]>> /\ err[p] = <<>>
      \/ status[p] > 0 /\ err[p] # <<>> /\ out[p] = <<>>

----------------------------------------------------------------------------
(* ischroot: the exit status *)

\* The option o is on the command line, as far as it has been read.
Given(o) == \E i \in 1..Len(seen) : seen[i] = o

\* The fakechroot environment: FAKECHROOT="true", FAKECHROOT_BASE set and
\* "libfakechroot.so" somewhere in LD_PRELOAD.
FakechrootEnv ==
  /\ environ.FAKECHROOT = True
  /\ environ.FAKECHROOT_BASE # Nil
  /\ environ.LD_PRELOAD # Nil
  /\ \E i \in 1..Len(environ.LD_PRELOAD) : \E j \in i..Len(environ.LD_PRELOAD) :
       SubSeq(environ.LD_PRELOAD, i, j) = LibFakechroot

\* C13: a run of ischroot that has read all its options, not both -f and -t
\* among them, ends with status 0 in the fakechroot environment whatever the
\* flags; otherwise with what the detection returned if that is 0 or 1; and
\* when the detection returned 2, with 0 under -t, 1 under -f and 2 under
\* neither.  So the status is 2 only when the detection failed without a
\* default flag.
C13_ExitStatus ==
  i_pc = "exit" /\ i_c = "EOF" /\ ~(Given("f") /\ Given("t")) =>
    /\ FakechrootEnv => i_status = 0
    /\ ~FakechrootEnv =>
         /\ detected \in {0, 1, 2}
         /\ detected \in {0, 1} => i_status = detected
         /\ detected = 2 =>
              i_status = IF Given("t") THEN 0 ELSE IF Given("f") THEN 1 ELSE 2
    /\ i_status = 2 <=>
         ~FakechrootEnv /\ detected = 2 /\ ~Given("f") /\ ~Given("t")
    /\ i_err = <<>>

\* The detection has failed outside the fakechroot environment, with
\* FAKECHROOT and FAKECHROOT_BASE set but no libfakechroot.so in LD_PRELOAD,
\* and -t has made the status 0.
C13_Witness ==
  /\ i_pc = "exit" /\ i_c = "EOF" /\ Given("t") /\ ~Given("f")
  /\ environ.FAKECHROOT = True /\ environ.FAKECHROOT_BASE = <<>>
  /\ environ.LD_PRELOAD \notin {Nil, LibFakechroot} /\ ~FakechrootEnv
  /\ detected = 2 /\ i_status = 0

\* The options that end the run where they stand: -h, -V and unknown ones.
Stops == {"h", "V", "?"}

\* Both -f and -t have been read, and no option of Stops before the place
\* where the second of the two stands.
BothThenNoStopBefore ==
  \E k \in 1..Len(seen) :
    /\ \E i \in 1..k : seen[i] = "f"
    /\ \E i \in 1..k : seen[i] = "t"
    /\ \A i \in 1..(k - 1) : seen[i] \notin Stops

----------------------------------------------------------------------------
(* the loop of generated names *)

\* Process p's open of the loop fails in this step with errno e.
LoopOpenFails(p, e) ==
  /\ ~named[p] /\ pc[p] = "open" /\ pc'[p] # "open"
  /\ fd'[p] # "open" /\ errno'[p] = e

\* C14: in a run with generated names an open that fails with EEXIST writes
\* no diagnostic and does not end the run: the candidate is freed and the run
\* is at tempnam again.  Every open of the loop is of a candidate made for
\* it: it comes straight after a tempnam that stored the base name in a
\* buffer that was free, and with a suffix after a composition of base name
\* and suffix in another buffer that was free; without a suffix its path is
\* none of the rejected ones.
C14_RetryOnExists ==
  [][\A p \in Procs :
       /\ LoopOpenFails(p, "EEXIST") =>
            /\ pc'[p] = "tempnam" /\ status'[p] = -1
            /\ err'[p] = err[p] /\ out'[p] = out[p] /\ fs' = fs
            /\ opened'[p] \in rejected'[p]
            /\ AllFreed(p)' /\ ~heapErr'[p]
       /\ ~named[p] /\ pc[p] # "malloc" /\ pc'[p] = "malloc" =>
            /\ pc[p] = "tempnam" /\ sfx[p] # Nil
            /\ ~heap[p][name'[p]].live /\ heap'[p][name'[p]].live
            /\ heap'[p][name'[p]].str \in TmpNames(dir[p], pfx[p])
       /\ ~named[p] /\ pc[p] # "open" /\ pc'[p] = "open" =>
            /\ pc[p] = IF sfx[p] = Nil THEN "tempnam" ELSE "malloc"
            /\ ~heap[p][filename'[p]].live /\ heap'[p][filename'[p]].live
            /\ sfx[p] # Nil =>
                 /\ filename'[p] # name'[p] /\ heap'[p][name'[p]].live
                 /\ heap'[p][filename'[p]].str = heap'[p][name'[p]].str \o sfx[p]
            /\ sfx[p] = Nil =>
                 /\ filename'[p] = name'[p]
                 /\ heap'[p][filename'[p]].str \in TmpNames(dir[p], pfx[p])
                 /\ heap'[p][filename'[p]].str \notin rejected[p]
            /\ gens'[p] < MaxCount => gens'[p] = attempts'[p] + 1
       /\ ~named[p] /\ pc[p] = "open" /\ pc'[p] # "open" =>
            opened'[p] = heap[p][filename[p]].str]_vars

\* After two opens that failed with EEXIST, the run with a suffix is at its
\* third open, with nothing written and still running.
C14_Witness ==
  \E p \in Procs :
    /\ ~named[p] /\ sfx[p] # Nil /\ pc[p] = "open" /\ errno[p] = "EEXIST"
    /\ retries[p] = 2 /\ attempts[p] = 2
    /\ err[p] = <<>> /\ out[p] = <<>> /\ status[p] = -1

\* tempnam returns NULL to process p in this step.
TempnamFails(p) ==
  /\ ~named[p] /\ pc[p] = "tempnam" /\ name'[p] = 0
  /\ gens'[p] # gens[p] \/ pc'[p] # pc[p]

\* C15: in a run with generated names an open that fails with an error other
\* than EEXIST, and a tempnam that returns NULL, end the run with status 1
\* after a diagnostic; and a run that has ended calls tempnam and open no
\* more.
C15_FatalInLoop ==
  [][\A p \in Procs :
       /\ LoopOpenFails(p, "EACCES") =>
            /\ pc'[p] = "exit" /\ status'[p] = 1
            /\ err'[p] = Append(err[p], <<"open", "EACCES">>)
            /\ retries'[p] = retries[p] /\ fs' = fs
       /\ TempnamFails(p) =>
            /\ pc'[p] = "exit" /\ status'[p] = 1
            /\ err'[p] = Append(err[p], <<"tempnam", "ENOMEM">>)
       /\ pc[p] = "exit" =>
            /\ pc'[p] = "exit" /\ status'[p] = status[p]
            /\ gens'[p] = gens[p] /\ attempts'[p] = attempts[p]
            /\ opened'[p] = opened[p] /\ made'[p] = made[p]
            /\ name'[p] = name[p] /\ filename'[p] = filename[p]
            /\ \A f \in DOMAIN fs' \ DOMAIN fs : fs'[f].by # p]_vars

\* The second open of a run with generated names has failed with an error
\* other than EEXIST: the run has ended with status 1 after two opens and two
\* calls of tempnam.
C15_Witness ==
  \E p \in Procs :
    /\ ~named[p] /\ Done(p) /\ status[p] = 1
    /\ LastErr(p) = <<"open", "EACCES">>
    /\ retries[p] = 1 /\ attempts[p] = 2 /\ gens[p] = 2

----------------------------------------------------------------------------
(* the buffers *)

\* The buffers process p holds.
Live(p) == {b \in Bufs : heap[p][b].live}

\* C16 as claimed: in both modes, at every call of tempnam no buffer
\* allocated before is still held; no buffer is freed twice; a buffer that is
\* read (by strcpy, open or puts) has not been freed; and a run that came to
\* the creation of a file and exits 0 has freed every buffer it allocated.
C16_Ownership ==
  \A p \in Procs :
    /\ pc[p] = "tempnam" => Live(p) = {}
    /\ ~heapErr[p]
    /\ pc[p] \in {"open_named", "malloc"} => name[p] \in Live(p)
    /\ pc[p] \in {"open", "close", "puts", "free"} => filename[p] \in Live(p)
    /\ status[p] = 0 /\ CreateRun(p) => Live(p) = {}

----------------------------------------------------------------------------
(* --name *)

\* The statements of the loop of generated names.
LoopPcs == {"tempnam", "malloc", "open"}

\* C17: in a run with --name, tempnam is never called and the loop is never
\* entered, whatever -d, -p and -s are; the one path passed to open, created
\* and written to standard output is the argument of the last --name as it
\* was given; and the loop is entered only in a run without --name.
C17_NameOnly ==
  \A p \in Procs :
    /\ nameArg[p] # Nil =>
         /\ gens[p] = 0 /\ retries[p] = 0 /\ pc[p] \notin LoopPcs
         /\ opened[p] \in {Nil, nameArg[p]} /\ made[p] \in {Nil, nameArg[p]}
         /\ CreateRun(p) =>
              /\ named[p] /\ Lines(p) \subseteq {nameArg[p]}
              /\ heap[p][name[p]].str = nameArg[p] \/ pc[p] = "exit"
              /\ status[p] = 0 => made[p] = nameArg[p]
    /\ pc[p] \in LoopPcs \/ gens[p] > 0 => nameArg[p] = Nil /\ ~named[p]

\* --name n with -d and -s: the run has created and reported n, which no
\* tempnam would have made from the directory and the suffix.
C17_Witness ==
  \E p \in Procs :
    /\ nameArg[p] = <<"n">> /\ dir[p] # Nil /\ sfx[p] # Nil
    /\ status[p] = 0 /\ out[p] = <<<<"n">>>> /\ made[p] = <<"n">>
    /\ DOMAIN fs = {<<"n">>}

----------------------------------------------------------------------------
(* the permission mask *)

\* C18: mode is always in [0, 07777]; it is 0600 as long as no -m argument
\* has been accepted and the value of the last one accepted afterwards; the
\* -m option that is rejected leaves it as it was; once the options are read
\* it changes no more; and every open of the run, the retries among them, is
\* passed that one value.
C18_MaskInvariant ==
  [][\A p \in Procs :
       /\ mode'[p] \in 0..MaxMode
       /\ mode'[p] = PermissionMask(p)'
       /\ modeArg'[p] # Nil => InRangeForm(modeArg'[p]) \/ modeArg'[p] = <<>>
       /\ ModeRejected(p)' /\ ~ModeRejected(p) =>
            mode'[p] = mode[p] /\ modeArg'[p] = modeArg[p]
       /\ CreateRun(p) => mode'[p] = mode[p]
       /\ openModes'[p] \subseteq {mode'[p]}
       /\ attempts'[p] > 0 => openModes'[p] = {mode'[p]}]_vars

\* After -m 664 the run with generated names is at its third open, having
\* passed 0664 to the two that failed.
C18_Witness ==
  \E p \in Procs :
    /\ modeArg[p] = <<"6", "6", "4">> /\ mode[p] = 436
    /\ pc[p] = "open" /\ retries[p] = 2 /\ openModes[p] = {436}

====
